---- MODULE Spec2Model ----
(***************************************************************************)
(* MasterFisher (src/utils/MasterFisher.ts): the resolver that fishes for  *)
(* a definition or its metadata in the package being exported, the FSH     *)
(* tank and the external FHIR definitions, in that order, after the FHIR   *)
(* definitions' predefined-resource index.                                 *)
(*                                                                         *)
(* The three Fishables are not part of MasterFisher.ts.  They are modelled *)
(* as ordered lists of definitions matched by name, id or url and filtered *)
(* by kind; everything MasterFisher does with their answers is translated  *)
(* from the source.                                                        *)
(***************************************************************************)
EXTENDS Integers, Sequences, FiniteSets, TLC

VARIABLES tank, pkg, fhir, aliases, pc, call, ret, log

vars == <<tank, pkg, fhir, aliases, pc, call, ret, log>>

(***************************************************************************)
(* Bounds of the model: how many definitions each Fishable holds.          *)
(***************************************************************************)
MaxTank == 2
MaxPkg == 1
MaxFhir == 1

(***************************************************************************)
(* Values.  A field that is absent on a JavaScript object reads as         *)
(* undefined; a template literal prints undefined as "undefined".          *)
(***************************************************************************)
Undefined == "<undefined>"

Str(v) == IF v = Undefined THEN "undefined" ELSE v

\* A Fishable's answer when it finds nothing (undefined / null).
NoRecord == [none |-> TRUE]

Canonical == "http://example.org"

FhirBase == "http://hl7.org/fhir"

UrlOf(base, resourceType, id) == base \o "/" \o Str(resourceType) \o "/" \o Str(id)

(***************************************************************************)
(* The definitions the Fishables may hold.  Every definition carries the   *)
(* Metadata fields, its kind (the Type a types filter selects on), and,    *)
(* for a tank Instance, its InstanceOf; predefined marks a FHIR definition *)
(* that is also in the predefined-resource index.                          *)
(***************************************************************************)
Def(kind, id, name, url, parent, sdType, resourceType, usage, instanceOf, predefined) ==
    [kind |-> kind, id |-> id, name |-> name, url |-> url, parent |-> parent,
     sdType |-> sdType, resourceType |-> resourceType, instanceUsage |-> usage,
     instanceOf |-> instanceOf, predefined |-> predefined]

\* A Profile in the tank: the tank knows its parent but not its sdType.
TankProfile(name, parent, hasUrl) ==
    Def("Profile", name, name,
        IF hasUrl THEN UrlOf(Canonical, "StructureDefinition", name) ELSE Undefined,
        parent, Undefined, "StructureDefinition", Undefined, Undefined, FALSE)

\* A Resource in the tank: it names its own type.
TankResource(name) ==
    Def("Resource", name, name, UrlOf(Canonical, "StructureDefinition", name),
        Undefined, name, "StructureDefinition", Undefined, Undefined, FALSE)

\* An Instance in the tank: the tank knows its InstanceOf but not its resourceType.
\* Its id is its name unless a rule assigns another.
TankInstance(id, name, instanceOf, usage) ==
    Def("Instance", id, name, Undefined, Undefined, Undefined, Undefined, usage,
        instanceOf, FALSE)

TankUniverse ==
    << TankProfile("A", "B", TRUE), TankProfile("A", "B", FALSE),
       TankProfile("A", "A", TRUE), TankProfile("A", "C", TRUE),
       TankProfile("B", "C", TRUE), TankProfile("B", "C", FALSE),
       TankProfile("B", "A", TRUE), TankResource("B"),
       TankInstance("A", "A", "A", "Example"), TankInstance("A", "A", "B", "Example"),
       TankInstance("A", "A", "B", "Inline"), TankInstance("A", "A", "C", "Example"),
       TankInstance("B", "B", "A", "Example"), TankInstance("A", "B", "B", "Example") >>

\* What has been exported so far: StructureDefinitions know their type.
PkgUniverse ==
    << Def("Profile", "A", "A", UrlOf(Canonical, "StructureDefinition", "A"),
           Undefined, "C", "StructureDefinition", Undefined, Undefined, FALSE),
       Def("Profile", "B", "B", UrlOf(Canonical, "StructureDefinition", "B"),
           Undefined, "C", "StructureDefinition", Undefined, Undefined, FALSE),
       Def("Instance", "B", "B", Undefined, Undefined, Undefined, "Patient",
           "Example", Undefined, FALSE) >>

FhirResource(name, predefined) ==
    Def("Resource", name, name, UrlOf(FhirBase, "StructureDefinition", name),
        Undefined, name, "StructureDefinition", Undefined, Undefined, predefined)

FhirUniverse ==
    << FhirResource("A", FALSE), FhirResource("A", TRUE),
       FhirResource("C", FALSE), FhirResource("B", TRUE) >>

\* The alias the tank defines: X stands for the canonical url of A.
AliasTable == [X |-> UrlOf(Canonical, "StructureDefinition", "A")]

Items == {"A", "B", "X"}

TypeFilters == {{}, {"Profile"}, {"Instance"}}

\* The elements of U at the indices in S, in U's order.
Pick(U, S) ==
    LET idx == SelectSeq([i \in 1..Len(U) |-> i], LAMBDA i : i \in S)
    IN  [k \in 1..Len(idx) |-> U[idx[k]]]

Catalogs(U, max) == {Pick(U, S) : S \in {T \in SUBSET (1..Len(U)) : Cardinality(T) <= max}}

(***************************************************************************)
(* The Fishable interface, as the tank, the package and the FHIR           *)
(* definitions answer it.                                                  *)
(***************************************************************************)
Matches(d, item, types) ==
    /\ item = d.name \/ item = d.id \/ item = d.url
    /\ types = {} \/ d.kind \in types

\* fishAll: every matching definition, in the Fishable's order.
FishAll(cat, item, types) == SelectSeq(cat, LAMBDA d : Matches(d, item, types))

\* The Metadata a Fishable builds for a definition: a fresh record per query.
Meta(d) ==
    [id |-> d.id, name |-> d.name, url |-> d.url, parent |-> d.parent,
     sdType |-> d.sdType, resourceType |-> d.resourceType,
     instanceUsage |-> d.instanceUsage]

\* fish / fishForFHIR of one Fishable: the first match or nothing.
Fish(cat, item, types) ==
    LET all == FishAll(cat, item, types)
    IN  IF Len(all) = 0 THEN NoRecord ELSE Head(all)

\* fishForMetadatas of one Fishable.
FishMetadatas(cat, item, types) ==
    LET all == FishAll(cat, item, types)
    IN  [i \in 1..Len(all) |-> Meta(all[i])]

\* fishForMetadata of one Fishable.
FishMetadata(cat, item, types) ==
    LET all == FishAll(cat, item, types)
    IN  IF Len(all) = 0 THEN NoRecord ELSE Meta(Head(all))

\* The predefined-resource index of the FHIR definitions.
Predefined == SelectSeq(fhir, LAMBDA d : d.predefined)

\* tank.resolveAlias: the alias's target, or undefined.
resolveAlias(item) == IF item \in DOMAIN aliases THEN aliases[item] ELSE Undefined

(***************************************************************************)
(* MasterFisher                                                            *)
(***************************************************************************)

\* item = this.tank?.resolveAlias(item) ?? item
ResolveItem(item) == IF resolveAlias(item) # Undefined THEN resolveAlias(item) ELSE item

\* The Fishables with the FHIR definitions first.
Fishables_FhirFirst == <<"fhir", "tank", "pkg">>

\* [this.pkg, this.tank, this.fhir].filter(f => f != null)
Fishables == <<"pkg", "tank", "fhir">>

Catalog(fishable) ==
    CASE fishable = "pkg" -> pkg
      [] fishable = "tank" -> tank
      [] fishable = "fhir" -> fhir

\* fishForFHIR without the look into the tank (lines 51-53).
fishForFHIR_FallsThrough(item0, types) ==
    LET item == ResolveItem(item0)
        predefined == Fish(Predefined, item, types)
        inPkg == Fish(pkg, item, types)
    IN  IF predefined # NoRecord THEN predefined
        ELSE IF inPkg # NoRecord THEN inPkg
        ELSE Fish(fhir, item, types)

\* fishForFHIR: the definition returned, or NoRecord.
fishForFHIR(item0, types) ==
    LET item == ResolveItem(item0)
        predefined == Fish(Predefined, item, types)
        inPkg == Fish(pkg, item, types)
    IN  IF predefined # NoRecord THEN predefined
        ELSE IF inPkg # NoRecord THEN inPkg
        ELSE IF Fish(tank, item, types) # NoRecord THEN NoRecord
        ELSE Fish(fhir, item, types)

(***************************************************************************)
(* findSdType: the walk up the parent chain.                               *)
(***************************************************************************)

\* The first Fishable, in order, whose fishForMetadata answers; NoRecord if none does.
FirstMatch(item, types) ==
    LET hits == SelectSeq(Fishables,
                          LAMBDA f : FishMetadata(Catalog(f), item, types) # NoRecord)
    IN  IF Len(hits) = 0 THEN NoRecord
        ELSE [fishable |-> Head(hits),
              meta |-> FishMetadata(Catalog(Head(hits)), item, types)]

\* history.some(md => md.url === parentResult.url)
CycleCheck(history, parentResult) ==
    \E i \in 1..Len(history) : history[i].url = parentResult.url

\* The message naming the offending parent only.
ChainNames_ParentOnly(history, parentResult) == <<parentResult.name>>

\* [...history, parentResult].map(l => l.name), joined with ' < ' in the message.
ChainNames(history, parentResult) ==
    [i \in 1..(Len(history) + 1) |->
        IF i <= Len(history) THEN history[i].name ELSE parentResult.name]

\* The error logged for a cycle: the chain, the hint when the FHIR definitions
\* hold a definition under the parent's name or id, and the source location
\* when the parent was found in the tank.
CycleError(history, hit, parent) ==
    LET byName == FishMetadata(fhir, hit.meta.name, {})
        fhirMeta == IF byName # NoRecord THEN byName
                    ELSE FishMetadata(fhir, hit.meta.id, {})
    IN  [chain |-> ChainNames(history, hit.meta),
         hint |-> IF fhirMeta # NoRecord THEN fhirMeta.url ELSE Undefined,
         sourceInfo |-> IF hit.fishable = "tank" /\ Fish(tank, parent, {}) # NoRecord
                        THEN Fish(tank, parent, {}).name ELSE Undefined]

RECURSIVE walkParents(_, _, _, _)
\* The while loop of findSdType, one iteration per unfolding.  Besides the
\* sdType returned and the error logged, the result shows the walk's history
\* when it ended and the parent the cycle check fired on, if it did.
walkParents(history, sdType, parent, types) ==
    IF sdType # Undefined \/ parent = Undefined
    THEN [sdType |-> sdType, log |-> <<>>, history |-> history, parentResult |-> NoRecord]
    ELSE LET resolved == ResolveItem(parent)
             hit == FirstMatch(resolved, types)
         IN  IF hit = NoRecord
             THEN [sdType |-> Undefined, log |-> <<>>, history |-> history,
                   parentResult |-> NoRecord]
             ELSE IF CycleCheck(history, hit.meta)
             THEN [sdType |-> Undefined, log |-> <<CycleError(history, hit, resolved)>>,
                   history |-> history, parentResult |-> hit.meta]
             ELSE walkParents(Append(history, hit.meta), hit.meta.sdType,
                              hit.meta.parent, types)

findSdType(meta, types) == walkParents(<<meta>>, meta.sdType, meta.parent, types)

(***************************************************************************)
(* fixMetadata and fishForMetadata call each other: fixMetadata fishes for *)
(* the metadata of an Instance's InstanceOf.  A call either returns a      *)
(* value or throws; either way it leaves the errors it logged.             *)
(***************************************************************************)
Returned(val, logged) == [thrown |-> FALSE, val |-> val, log |-> logged]

Thrown(logged) == [thrown |-> TRUE, val |-> NoRecord, log |-> logged]

\* The call stack is finite.  A chain of nested fishForMetadata calls longer
\* than the tank has definitions has fished for some InstanceOf twice, and
\* so never returns: the engine ends it with a RangeError.
StackLimit == Len(tank) + 1

\* !v of a string or undefined
Falsy(v) == v = Undefined \/ v = ""

\* fishable.fishAll(item, ...types).find(e => e.id == metadata.id && e.name == metadata.name)
fshDefinition(metadata, item, types) ==
    LET found == SelectSeq(FishAll(tank, item, types),
                           LAMBDA e : e.id = metadata.id /\ e.name = metadata.name)
    IN  IF Len(found) = 0 THEN NoRecord ELSE Head(found)

\* The url added to Inline instances too.
AddUrl_IgnoresInline(metadata) ==
    IF Falsy(metadata.url)
    THEN [metadata EXCEPT !.url = UrlOf(Canonical, metadata.resourceType, metadata.id)]
    ELSE metadata

\* Add url to metadata for non-inline Instances
AddUrl(metadata) ==
    IF Falsy(metadata.url) /\ metadata.instanceUsage # "Inline"
    THEN [metadata EXCEPT !.url = UrlOf(Canonical, metadata.resourceType, metadata.id)]
    ELSE metadata

\* The caller's types handed on to the nested call.
InstanceOfTypes_Passed(types) == types

\* The types handed to the nested fishForMetadata(fshDefinition.instanceOf): none.
InstanceOfTypes(types) == {}

RECURSIVE fishForMetadataAt(_, _, _)

\* metadata.resourceType = this.fishForMetadata(fshDefinition.instanceOf)?.sdType,
\* then the url, unless the nested call threw.
fixInstance(typed, logged, sub) ==
    IF sub.thrown THEN Thrown(logged \o sub.log)
    ELSE Returned(AddUrl([typed EXCEPT !.resourceType =
                             IF sub.val = NoRecord THEN Undefined ELSE sub.val.sdType]),
                  logged \o sub.log)

\* What fixMetadata does to a tank record once its sdType is set.
fixTyped(typed, logged, fshDef, types, depth) ==
    IF Falsy(typed.resourceType) /\ fshDef # NoRecord /\ fshDef.kind = "Instance"
    THEN fixInstance(typed, logged,
                     fishForMetadataAt(fshDef.instanceOf, InstanceOfTypes(types), depth + 1))
    ELSE Returned(AddUrl(typed), logged)

\* metadata.sdType = this.findSdType(metadata, types, fishables), and the rest.
fixTank(metadata, walk, fshDef, types, depth) ==
    fixTyped([metadata EXCEPT !.sdType = walk.sdType], walk.log, fshDef, types, depth)

fixMetadata(metadata, item, types, fishable, depth) ==
    IF fishable = "tank"
    THEN fixTank(metadata, findSdType(metadata, types),
                 fshDefinition(metadata, item, types), types, depth)
    ELSE Returned(AddUrl(metadata), <<>>)

\* return this.fixMetadata(result, item, types, fishable, fishables), if any
\* Fishable had a result.
fixFirst(hit, item, types, depth) ==
    IF hit = NoRecord THEN Returned(NoRecord, <<>>)
    ELSE fixMetadata(hit.meta, item, types, hit.fishable, depth)

\* fishForMetadata after the alias is resolved.
fishResolved(predefined, item, types, depth) ==
    IF predefined # NoRecord THEN Returned(predefined, <<>>)
    ELSE fixFirst(FirstMatch(item, types), item, types, depth)

\* fishForMetadata entered at call depth `depth`.
fishForMetadataAt(item0, types, depth) ==
    IF depth > StackLimit THEN Thrown(<<>>)
    ELSE fishResolved(FishMetadata(Predefined, ResolveItem(item0), types),
                      ResolveItem(item0), types, depth)

fishForMetadata(item, types) == fishForMetadataAt(item, types, 1)

(***************************************************************************)
(* fishForMetadatas                                                        *)
(***************************************************************************)

\* The results of every Fishable, in order, each with the Fishable it came from.
Gathered(item, types) ==
    LET of(f) == LET ms == FishMetadatas(Catalog(f), item, types)
                 IN  [i \in 1..Len(ms) |-> [fishable |-> f, meta |-> ms[i]]]
    IN  of(Fishables[1]) \o of(Fishables[2]) \o of(Fishables[3])

\* .map(result => this.fixMetadata(...)): the outcome of each repair.
fixEach(todo, item, types) ==
    [i \in 1..Len(todo) |-> fixMetadata(todo[i].meta, item, types, todo[i].fishable, 1)]

\* The repairs made before one throws: all of them if none does.
Completed(outcomes) ==
    IF \E i \in 1..Len(outcomes) : outcomes[i].thrown
    THEN SubSeq(outcomes, 1, CHOOSE i \in 1..Len(outcomes) :
                                 /\ outcomes[i].thrown
                                 /\ \A j \in 1..(i - 1) : ~outcomes[j].thrown)
    ELSE outcomes

RECURSIVE Logged(_)
\* The errors logged by a sequence of repairs, in order.
Logged(outcomes) ==
    IF Len(outcomes) = 0 THEN <<>> ELSE Head(outcomes).log \o Logged(Tail(outcomes))

\* No record removed.
uniqWith_KeepAll(metadatas) == metadatas

\* lodash uniqWith(metadatas, isEqual): the first of each class of equal records.
uniqWith(metadatas) ==
    LET keep == SelectSeq([i \in 1..Len(metadatas) |-> i],
                          LAMBDA i : \A j \in 1..(i - 1) : metadatas[j] # metadatas[i])
    IN  [k \in 1..Len(keep) |-> metadatas[keep[k]]]

\* metadatas.push(...results) for every Fishable, then uniqWith; nothing is
\* returned when a repair threw.
collect(metadatas, done) ==
    IF Len(done) > 0 /\ done[Len(done)].thrown
    THEN [thrown |-> TRUE, val |-> <<>>, log |-> Logged(done)]
    ELSE [thrown |-> FALSE,
          val |-> uniqWith(metadatas \o [i \in 1..Len(done) |-> done[i].val]),
          log |-> Logged(done)]

fishForMetadatasOf(item, types) ==
    collect(FishMetadatas(Predefined, item, types),
            Completed(fixEach(Gathered(item, types), item, types)))

fishForMetadatas(item0, types) == fishForMetadatasOf(ResolveItem(item0), types)

(***************************************************************************)
(* The state machine.  A MasterFisher is constructed over a tank, a        *)
(* package and FHIR definitions; its caller makes one call at a time.      *)
(* call is the call made, ret what it returned (val: a sequence, empty     *)
(* for undefined) or that it threw, log the errors it logged.              *)
(***************************************************************************)
NoCall == [op |-> "none", item |-> Undefined, types |-> {}]

NoRet == [thrown |-> FALSE, val |-> <<>>]

Single(v) == IF v = NoRecord THEN <<>> ELSE <<v>>

Init ==
    /\ tank \in Catalogs(TankUniverse, MaxTank)
    /\ pkg \in Catalogs(PkgUniverse, MaxPkg)
    /\ fhir \in Catalogs(FhirUniverse, MaxFhir)
    /\ aliases = AliasTable
    /\ pc = "idle"
    /\ call = NoCall
    /\ ret = NoRet
    /\ log = <<>>

FishForFHIR(item, types) ==
    /\ pc = "idle"
    /\ pc' = "returned"
    /\ call' = [op |-> "fishForFHIR", item |-> item, types |-> types]
    /\ ret' = [thrown |-> FALSE, val |-> Single(fishForFHIR(item, types))]
    /\ log' = <<>>
    /\ UNCHANGED <<tank, pkg, fhir, aliases>>

FishForMetadata(item, types) ==
    /\ pc = "idle"
    /\ pc' = "returned"
    /\ call' = [op |-> "fishForMetadata", item |-> item, types |-> types]
    /\ LET o == fishForMetadata(item, types)
       IN  /\ ret' = [thrown |-> o.thrown, val |-> Single(o.val)]
           /\ log' = o.log
    /\ UNCHANGED <<tank, pkg, fhir, aliases>>

FishForMetadatas(item, types) ==
    /\ pc = "idle"
    /\ pc' = "returned"
    /\ call' = [op |-> "fishForMetadatas", item |-> item, types |-> types]
    /\ LET o == fishForMetadatas(item, types)
       IN  /\ ret' = [thrown |-> o.thrown, val |-> o.val]
           /\ log' = o.log
    /\ UNCHANGED <<tank, pkg, fhir, aliases>>

\* The caller takes the result and is free to call again.
Return ==
    /\ pc = "returned"
    /\ pc' = "idle"
    /\ call' = NoCall
    /\ ret' = NoRet
    /\ log' = <<>>
    /\ UNCHANGED <<tank, pkg, fhir, aliases>>

Next ==
    \/ \E item \in Items, types \in TypeFilters : FishForFHIR(item, types)
    \/ \E item \in Items, types \in TypeFilters : FishForMetadata(item, types)
    \/ \E item \in Items, types \in TypeFilters : FishForMetadatas(item, types)
    \/ Return

Spec == Init /\ [][Next]_vars

(***************************************************************************)
(* Properties.  All speak of the state a call has left: call, ret, log.    *)
(***************************************************************************)
Called(op) == pc = "returned" /\ call.op = op

\* The identifier the call fished for, after alias resolution.
Target == ResolveItem(call.item)

\* The Fishable whose metadata the call took, and that metadata as it gave it.
Source == FirstMatch(Target, call.types)

InPredefined == Fish(Predefined, Target, call.types) # NoRecord

\* The call's metadata came from the tank.
FromTank == ~InPredefined /\ Source # NoRecord /\ Source.fishable = "tank"

Elements(seq) == {seq[i] : i \in 1..Len(seq)}

----------------------------------------------------------------------------
\* C1 (as claimed): whenever the identifier is not in the package but the tank
\* has a matching definition, fishForFHIR returns nothing, so never the FHIR
\* definitions' content.
C1_OnlyInTank ==
    /\ Called("fishForFHIR")
    /\ Fish(pkg, Target, call.types) = NoRecord
    /\ Fish(tank, Target, call.types) # NoRecord

----------------------------------------------------------------------------
\* The package's definition d, as metadata m: every field of d, and d's url
\* when it has one.
PkgContent(m, d) ==
    /\ m.id = d.id /\ m.name = d.name /\ m.parent = d.parent
    /\ m.sdType = d.sdType /\ m.resourceType = d.resourceType
    /\ m.instanceUsage = d.instanceUsage
    /\ d.url # Undefined => m.url = d.url

C2_InBoth ==
    /\ pc = "returned"
    /\ call.op \in {"fishForFHIR", "fishForMetadata"}
    /\ Fish(pkg, Target, call.types) # NoRecord
    /\ Fish(fhir, Target, call.types) # NoRecord
    /\ Fish(pkg, Target, call.types) # Fish(fhir, Target, call.types)

C2_ReturnsPkg ==
    /\ ~ret.thrown
    /\ Len(ret.val) = 1
    /\ call.op = "fishForFHIR" => ret.val[1] = Fish(pkg, Target, call.types)
    /\ call.op = "fishForMetadata" =>
           PkgContent(ret.val[1], Fish(pkg, Target, call.types))

----------------------------------------------------------------------------
\* The C of a chain A -> B -> C of three definitions of different names: A and
\* B have no sdType of their own, each parent is what the Fishables, in order,
\* hold under the parent's name, and C has an sdType.  NoRecord when a is not
\* the A of such a chain.
ChainEnd(a) ==
    IF a.sdType # Undefined \/ a.parent = Undefined THEN NoRecord
    ELSE LET b == FirstMatch(ResolveItem(a.parent), {})
         IN  IF b = NoRecord THEN NoRecord
             ELSE IF b.meta.sdType # Undefined \/ b.meta.parent = Undefined
                     \/ b.meta.name = a.name THEN NoRecord
             ELSE LET c == FirstMatch(ResolveItem(b.meta.parent), {})
                  IN  IF c = NoRecord THEN NoRecord
                      ELSE IF c.meta.sdType = Undefined
                              \/ c.meta.name \in {a.name, b.meta.name} THEN NoRecord
                      ELSE c.meta

\* C3 (as claimed): for a chain A -> B -> C where A is a tank definition with no
\* sdType and C has one, fishForMetadata(A), under any types that match A,
\* returns a record whose sdType is C's.
C3_TypeDerivation ==
    (Called("fishForMetadata") /\ FromTank /\ ChainEnd(Source.meta) # NoRecord) =>
        /\ ~ret.thrown
        /\ Len(ret.val) = 1
        /\ ret.val[1].sdType = ChainEnd(Source.meta).sdType

----------------------------------------------------------------------------
\* a is the A of a chain A -> B -> A of tank definitions, as fished under types.
CycleB(a, types) ==
    IF a.sdType # Undefined \/ a.parent = Undefined THEN NoRecord
    ELSE LET b == FirstMatch(ResolveItem(a.parent), types)
         IN  IF b = NoRecord THEN NoRecord
             ELSE IF b.fishable # "tank" \/ b.meta.sdType # Undefined
                     \/ b.meta.parent = Undefined THEN NoRecord
             ELSE LET back == FirstMatch(ResolveItem(b.meta.parent), types)
                  IN  IF back = NoRecord THEN NoRecord
                      ELSE IF back.fishable # "tank" \/ back.meta # a THEN NoRecord
                      ELSE b.meta

C4_InCycle == Called("fishForMetadata") /\ FromTank /\ CycleB(Source.meta, call.types) # NoRecord

\* C4: for a chain A -> B -> A of tank definitions, fishForMetadata(A) returns a
\* record with no sdType and logs exactly one error, whose chain names A and B.
C4_CycleDetection ==
    C4_InCycle =>
        /\ ~ret.thrown
        /\ Len(ret.val) = 1
        /\ ret.val[1].sdType = Undefined
        /\ Len(log) = 1
        /\ Source.meta.name \in Elements(log[1].chain)
        /\ CycleB(Source.meta, call.types).name \in Elements(log[1].chain)

\* A cycle through two definitions of different names was fished and reported.
C4_Witness ==
    /\ C4_InCycle
    /\ CycleB(Source.meta, call.types).name # Source.meta.name
    /\ Len(log) = 1
    /\ ret.val[1].sdType = Undefined

----------------------------------------------------------------------------
\* C5 (as claimed): whatever the three Fishables hold, every call of
\* fishForFHIR, fishForMetadata and fishForMetadatas finishes after a bounded
\* number of lookups: none recurses until the stack is exhausted.
C5_EveryCallReturns == pc = "returned" => ~ret.thrown

----------------------------------------------------------------------------
\* What fishForMetadatas gathers before it removes duplicates: the predefined
\* matches, then the package's, the tank's and the FHIR definitions' matches,
\* each of these repaired.
GatheringSequence ==
    LET found == Gathered(Target, call.types)
    IN  FishMetadatas(Predefined, Target, call.types) \o
        [i \in 1..Len(found) |->
            fixMetadata(found[i].meta, Target, call.types, found[i].fishable, 1).val]

FirstIndex(seq, x) == CHOOSE i \in 1..Len(seq) : seq[i] = x /\ \A j \in 1..(i - 1) : seq[j] # x

----------------------------------------------------------------------------
\* The url of the repaired record r, given the record o the Fishable gave: kept
\* if o had one; else base/resourceType/id (an unset resourceType printing as
\* "undefined") unless the instance is Inline; else none.
UrlRule(o, r) ==
    /\ o.url # Undefined => r.url = o.url
    /\ (o.url = Undefined /\ o.instanceUsage # "Inline") =>
           r.url = Canonical \o "/"
                   \o (IF r.resourceType = Undefined THEN "undefined" ELSE r.resourceType)
                   \o "/" \o r.id
    /\ (o.url = Undefined /\ o.instanceUsage = "Inline") => r.url = Undefined

Repaired(o, r) ==
    /\ r.id = o.id /\ r.name = o.name /\ r.parent = o.parent
    /\ r.instanceUsage = o.instanceUsage
    /\ UrlRule(o, r)

\* C7: every record that passes through fixMetadata keeps its url if it had
\* one, gets canonical/resourceType/id if it had none and is not Inline, and
\* has none if it had none and is Inline.
C7_UrlSynthesis ==
    /\ (Called("fishForMetadata") /\ ~ret.thrown /\ ~InPredefined /\ Source # NoRecord) =>
           Len(ret.val) = 1 /\ Repaired(Source.meta, ret.val[1])
    /\ (Called("fishForMetadatas") /\ ~ret.thrown) =>
           \A g \in Elements(Gathered(Target, call.types)) :
               \E r \in Elements(ret.val) : Repaired(g.meta, r)

\* An Instance the tank gave without url came back as canonical/C/A.
C7_Witness ==
    /\ Called("fishForMetadata")
    /\ FromTank
    /\ ~ret.thrown
    /\ Source.meta.url = Undefined
    /\ Source.meta.instanceUsage = "Example"
    /\ ret.val[1].resourceType = "C"
    /\ ret.val[1].url = "http://example.org/C/A"

----------------------------------------------------------------------------
\* The sdType fishForMetadata finds for an InstanceOf, asked without types.
SdTypeOf(instanceOf) ==
    LET o == fishForMetadata(instanceOf, {})
    IN  IF o.val = NoRecord THEN Undefined ELSE o.val.sdType

\* The tank gave a record without resourceType whose artifact is an Instance.
C8_InstanceWithoutType ==
    /\ Called("fishForMetadata")
    /\ FromTank
    /\ ~ret.thrown
    /\ Source.meta.resourceType = Undefined
    /\ fshDefinition(Source.meta, Target, call.types) # NoRecord
    /\ fshDefinition(Source.meta, Target, call.types).kind = "Instance"

\* C8: a tank record without resourceType whose artifact (same id and name) is
\* an Instance is returned with the sdType of its InstanceOf's metadata as
\* resourceType; a record that has a resourceType keeps it.
C8_ResourceTypeBackfill ==
    /\ C8_InstanceWithoutType =>
           /\ Len(ret.val) = 1
           /\ ret.val[1].resourceType =
                  SdTypeOf(fshDefinition(Source.meta, Target, call.types).instanceOf)
    /\ (Called("fishForMetadata") /\ FromTank /\ ~ret.thrown
            /\ Source.meta.resourceType # Undefined) =>
           /\ Len(ret.val) = 1
           /\ ret.val[1].resourceType = Source.meta.resourceType

\* An Instance fished for as an Instance got the type of its InstanceOf, which
\* is not an Instance.
C8_Witness ==
    /\ C8_InstanceWithoutType
    /\ call.types = {"Instance"}
    /\ ret.val[1].resourceType # Undefined

----------------------------------------------------------------------------
\* Two metadata records of one definition: the same id and name.
SameDefinition(m, n) == m.id = n.id /\ m.name = n.name

\* The walk met a definition it had already visited, and reported it.
FoundCycle(walk) ==
    /\ walk.log # <<>>
    /\ \E i \in 1..Len(walk.history) : SameDefinition(walk.history[i], walk.parentResult)

\* The walk for the i-th gathered record, a tank record, finds a cycle.
CycleAt(found, i) ==
    /\ found[i].fishable = "tank"
    /\ FoundCycle(findSdType(found[i].meta, call.types))

Present(o) ==
    \E r \in Elements(ret.val) :
        r.id = o.id /\ r.name = o.name /\ r.parent = o.parent
            /\ r.instanceUsage = o.instanceUsage

\* C9 (as claimed): when the repair of one record finds a cycle, fishForMetadatas
\* throws nothing, returns that record with no sdType, and returns every match
\* gathered after it.
C9_CycleDoesNotAbort ==
    Called("fishForMetadatas") =>
        LET found == Gathered(Target, call.types)
        IN  \A i \in 1..Len(found) :
                CycleAt(found, i) =>
                    /\ ~ret.thrown
                    /\ \E r \in Elements(ret.val) :
                           /\ r.id = found[i].meta.id
                           /\ r.name = found[i].meta.name
                           /\ r.parent = found[i].meta.parent
                           /\ r.sdType = Undefined
                    /\ \A j \in (i + 1)..Len(found) : Present(found[j].meta)

----------------------------------------------------------------------------
\* C10 (as claimed): whenever the cycle check fires, the matched parent is a
\* definition the walk has already visited.
C10_CycleCheckSound ==
    (Called("fishForMetadata") /\ FromTank) =>
        LET walk == findSdType(Source.meta, call.types)
        IN  walk.log # <<>> => FoundCycle(walk)

====
